---- MODULE Spec2Model ----
(***************************************************************************)
(* Task Management API (backend/server.py): the user store, the task      *)
(* store and the request handlers, one action per database round trip     *)
(* (every `await db...` is an atomic step; requests interleave between     *)
(* them).                                                                  *)
(***************************************************************************)
EXTENDS Integers, FiniteSets, Sequences, TLC

VARIABLES started, users, tasks, now, nextUserId, nextTaskId, issued, deletedUsers, req, last, workload

vars == <<started, users, tasks, now, nextUserId, nextTaskId, issued, deletedUsers, req, last, workload>>

(* ------------------------------ bounds -------------------------------- *)
MaxUsers == 3
MaxTasks == 2
MaxTicks == 1
TickMinutes == 1440
MaxRequests == 4

(* two workers serve requests concurrently *)
Procs == {1, 2}

(* ----------------------------- constants ------------------------------ *)
ACCESS_TOKEN_EXPIRE_MINUTES == 60 * 24
SECRET_KEY == "server-secret"
ALGORITHM == "HS256"
ListLength == 1000
allowed_statuses == {"pending", "in-progress", "completed"}

None == "None"
NoId == 0

(* ------------------------- request vocabularies ----------------------- *)
Usernames == {"alice", "bob"}
Emails == {"a@x.com", "b@x.com"}
Passwords == {"secret1", "secret2"}
FullNames == {None}

StrLen(s) ==
    CASE s = "" -> 0
      [] s = "al" -> 2
      [] s = "pw" -> 2
      [] s = "t1" -> 2
      [] s = "t2" -> 2
      [] s = "bob" -> 3
      [] s = "alice" -> 5
      [] s = "carol" -> 5
      [] s = "secret1" -> 7
      [] s = "secret2" -> 7
      [] OTHER -> 8

(* --------------------------- utility functions ------------------------ *)
(* no Authorization header / no token in a response *)
NoToken == [fmt |-> "absent", payload |-> [sub |-> NoId, exp |-> 0], key |-> ""]

get_password_hash(password) == <<"bcrypt", password>>

(* mutation: any password verifies *)
verify_password_any(plain_password, hashed_password) == TRUE

verify_password(plain_password, hashed_password) ==
    hashed_password = <<"bcrypt", plain_password>>

jwt_encode(payload, key) == [fmt |-> "jwt", payload |-> payload, key |-> key]

(* mutation: the subject claim is left out of the token *)
create_access_token_without_sub(data, t) ==
    jwt_encode([sub |-> NoId, exp |-> t + ACCESS_TOKEN_EXPIRE_MINUTES], SECRET_KEY)

create_access_token(data, t) ==
    jwt_encode([sub |-> data.sub, exp |-> t + ACCESS_TOKEN_EXPIRE_MINUTES], SECRET_KEY)

InvalidTokenError == [error |-> "InvalidTokenError"]

jwt_decode(token, key, t) ==
    IF token.fmt # "jwt" THEN InvalidTokenError
    ELSE IF token.key # key THEN InvalidTokenError
    ELSE IF token.payload.exp <= t THEN InvalidTokenError
    ELSE token.payload

(* responses *)
Response(status, detail) ==
    [status |-> status, detail |-> detail, token |-> NoToken, user |-> NoId, ids |-> {},
     issued_at |-> 0]

NoResponse == Response("none", "")
credentials_exception == Response("Unauthorized", "Could not validate credentials")
NotAuthenticated == Response("Unauthorized", "Not authenticated")
ValidationError == Response("Unprocessable", "validation error")
InternalError == Response("InternalError", "Internal Server Error")

(* a query document: equalities, an optional $or of equalities, and $ne's *)
Query(eq, or, ne) == [eq |-> eq, or |-> or, ne |-> ne]
NoConditions == [x \in {} |-> "None"]
ById(id) == Query([id |-> id], {}, NoConditions)

Matches(d, query) ==
    /\ \A k \in DOMAIN query.eq : d[k] = query.eq[k]
    /\ query.or # {} => \E c \in query.or : \A k \in DOMAIN c : d[k] = c[k]
    /\ \A k \in DOMAIN query.ne : d[k] # query.ne[k]

(* find_one: the documents it can return, any one of the matching ones (no sort
   is given) *)
find_one(coll, query) == {d \in coll : Matches(d, query)}

HTTPBearer(token) == token.fmt # "absent"

(* mutation: the decoded subject is trusted without looking the user up *)
get_current_user_without_lookup(token, us, t) ==
    LET payload == jwt_decode(token, SECRET_KEY, t) IN
    IF payload = InvalidTokenError THEN credentials_exception
    ELSE IF payload.sub = NoId THEN credentials_exception
    ELSE LET found == {u \in us : u.id = payload.sub} IN
         IF found = {} THEN [id |-> payload.sub]
         ELSE CHOOSE u \in found : TRUE

(* get_current_user: the resolved user record, or the 401 it raises *)
get_current_user(token, us, t) ==
    LET payload == jwt_decode(token, SECRET_KEY, t) IN
    IF payload = InvalidTokenError THEN credentials_exception
    ELSE IF payload.sub = NoId THEN credentials_exception
    ELSE LET found == find_one(us, ById(payload.sub)) IN
         IF found = {} THEN credentials_exception
         ELSE CHOOSE u \in found : TRUE

(* the tokens a client can present *)
AbsentToken == NoToken
GarbageToken == [fmt |-> "garbage", payload |-> [sub |-> NoId, exp |-> 0], key |-> ""]
ForgedTokens ==
    {jwt_encode([sub |-> i, exp |-> (MaxTicks + 1) * TickMinutes + 1], "attacker-key") :
        i \in 1..(nextUserId - 1)}
NoSubToken == jwt_encode([sub |-> NoId, exp |-> (MaxTicks + 1) * TickMinutes + 1], SECRET_KEY)
PresentableTokens ==
    IF workload = "sessions"
    THEN issued \cup ForgedTokens \cup {AbsentToken, GarbageToken, NoSubToken}
    ELSE issued \cup {AbsentToken}

(* ------------------------------ requests ------------------------------ *)
NoBody == [x \in {} |-> None]

(* req[p]: the request a worker is serving; last: the latest response sent,
   with the request it answers (for the public routes, the body included) *)
IdleReq ==
    [op |-> "none", pc |-> "idle", token |-> AbsentToken, uid |-> NoId, tid |-> NoId,
     body |-> NoBody, wrote |-> FALSE]

NoExchange ==
    [op |-> "none", token |-> AbsentToken, uid |-> NoId, tid |-> NoId, body |-> NoBody,
     wrote |-> FALSE, res |-> NoResponse]

Free(p) == req[p].pc = "idle" /\ \A q \in Procs : q < p => req[q].pc # "idle"

(* the clients' workload in a run: account management, sessions (tokens over
   time) or task management *)
Workloads == {"accounts", "sessions", "tasks"}
Accepts(p, w) == Free(p) /\ workload \in w /\ started < MaxRequests

Begin(op, token, tid, body) ==
    [op |-> op, pc |-> "begin", token |-> token, uid |-> NoId, tid |-> tid,
     body |-> body, wrote |-> FALSE]

(* the request r of worker p returns res *)
Done(p, r, res) ==
    /\ started' = IF req[p].pc = "idle" THEN started + 1 ELSE started
    /\ req' = [req EXCEPT ![p] = IdleReq]
    /\ last' = [op |-> r.op, token |-> r.token, uid |-> r.uid, tid |-> r.tid,
                body |-> IF r.op \in {"signup", "login"} THEN r.body ELSE NoBody,
                wrote |-> r.wrote, res |-> res]

(* worker p goes on with r *)
Continue(p, r) ==
    /\ started' = IF req[p].pc = "idle" THEN started + 1 ELSE started
    /\ req' = [req EXCEPT ![p] = r]
    /\ UNCHANGED last

Init ==
    /\ started = 0
    /\ users = {}
    /\ tasks = {}
    /\ now = 0
    /\ nextUserId = 1
    /\ nextTaskId = 1
    /\ issued = {}
    /\ deletedUsers = {}
    /\ req = [p \in Procs |-> IdleReq]
    /\ last = NoExchange
    /\ workload \in Workloads

(* ---------------------------- authentication -------------------------- *)
UserCreateBodies ==
    IF workload = "accounts"
    THEN {[username |-> "alice", email |-> "a@x.com", password |-> "secret1", full_name |-> None],
          [username |-> "bob", email |-> "b@x.com", password |-> "secret1", full_name |-> None],
          [username |-> "carol", email |-> "c@x.com", password |-> "secret1", full_name |-> None],
          [username |-> "alice", email |-> "b@x.com", password |-> "secret1", full_name |-> None],
          [username |-> "al", email |-> "a@x.com", password |-> "secret1", full_name |-> None]}
    ELSE {[username |-> "alice", email |-> "a@x.com", password |-> "secret1", full_name |-> None],
          [username |-> "bob", email |-> "b@x.com", password |-> "secret1", full_name |-> None]}

UserCreateValid(b) ==
    /\ StrLen(b.username) >= 3 /\ StrLen(b.username) <= 50
    /\ StrLen(b.password) >= 6

InFlight(op) == Cardinality({q \in Procs : req[q].op = op})

(* POST /auth/signup, up to the existence check (lines 171-186) *)
signup(p) ==
    /\ Accepts(p, Workloads)
    /\ \E b \in UserCreateBodies :
        LET r == Begin("signup", AbsentToken, NoId, b) IN
        IF ~UserCreateValid(b)
        THEN Done(p, r, ValidationError)
        ELSE LET found == find_one(users, Query(NoConditions, {[email |-> b.email], [username |-> b.username]},
                                                   NoConditions)) IN
             IF found # {}
             THEN \E existing_user \in found :
                    Done(p, r, IF existing_user.email = b.email
                               THEN Response("BadRequest", "Email already registered")
                               ELSE Response("BadRequest", "Username already taken"))
             ELSE /\ nextUserId + InFlight("signup") <= MaxUsers
                  /\ Continue(p, [r EXCEPT !.pc = "insert"])
    /\ UNCHANGED <<users, tasks, now, nextUserId, nextTaskId, issued, deletedUsers, workload>>

(* POST /auth/signup, the insert and the token (lines 188-207) *)
signup_insert(p) ==
    /\ req[p].op = "signup" /\ req[p].pc = "insert"
    /\ LET b == req[p].body
           user_dict == [id |-> nextUserId, username |-> b.username, email |-> b.email,
                         password |-> get_password_hash(b.password),
                         full_name |-> b.full_name, created_at |-> now]
           access_token == create_access_token([sub |-> user_dict.id], now)
       IN /\ users' = users \cup {user_dict}
          /\ nextUserId' = nextUserId + 1
          /\ issued' = issued \cup {access_token}
          /\ Done(p, [req[p] EXCEPT !.wrote = TRUE],
                  [Response("Created", "") EXCEPT !.token = access_token,
                                                  !.user = user_dict.id,
                                                  !.issued_at = now])
    /\ UNCHANGED <<tasks, now, nextTaskId, deletedUsers, workload>>

UserLoginBodies == [email : Emails, password : Passwords]

(* POST /auth/login (lines 210-232) *)
login(p) ==
    /\ Accepts(p, {"accounts", "sessions"})
    /\ \E b \in UserLoginBodies :
        LET r == Begin("login", AbsentToken, NoId, b)
            found == find_one(users, Query([email |-> b.email], {}, NoConditions)) IN
        IF found = {}
        THEN /\ Done(p, r, Response("Unauthorized", "Incorrect email or password"))
             /\ UNCHANGED issued
        ELSE \E user \in found :
            IF ~verify_password(b.password, user.password)
            THEN /\ Done(p, r, Response("Unauthorized", "Incorrect email or password"))
                 /\ UNCHANGED issued
            ELSE LET access_token == create_access_token([sub |-> user.id], now) IN
                 /\ issued' = issued \cup {access_token}
                 /\ Done(p, r, [Response("OK", "") EXCEPT !.token = access_token,
                                                         !.user = user.id,
                                                         !.issued_at = now])
    /\ UNCHANGED <<users, tasks, now, nextUserId, nextTaskId, deletedUsers, workload>>

(* ------------------------------ protected routes ---------------------- *)
(* Depends(get_current_user): HTTPBearer, then get_current_user *)
Authenticate(token) ==
    IF ~HTTPBearer(token) THEN NotAuthenticated
    ELSE get_current_user(token, users, now)

IsError(x) == "status" \in DOMAIN x

(* mutation: the document is replaced, the unsupplied fields are reset *)
ReplaceFields(doc, update_data) ==
    [k \in DOMAIN doc |-> IF k \in DOMAIN update_data THEN update_data[k]
                          ELSE IF k \in {"id", "user_id", "created_at", "password"} THEN doc[k]
                          ELSE None]

(* $set: the supplied fields replace the document's, the others stay *)
SetFields(doc, update_data) ==
    [k \in DOMAIN doc |-> IF k \in DOMAIN update_data THEN update_data[k] ELSE doc[k]]

(* update_one by id: the matching document (ids are unique) is updated *)
update_one(coll, query, update_data) ==
    {IF Matches(d, query) THEN SetFields(d, update_data) ELSE d : d \in coll}

(* POST /auth/logout (lines 235-238) *)
logout(p) ==
    /\ Accepts(p, {"sessions"})
    /\ \E token \in PresentableTokens :
        LET r == Begin("logout", token, NoId, NoBody)
            current_user == Authenticate(token) IN
        IF IsError(current_user) THEN Done(p, r, current_user)
        ELSE Done(p, [r EXCEPT !.uid = current_user.id], Response("OK", "Successfully logged out"))
    /\ UNCHANGED <<users, tasks, now, nextUserId, nextTaskId, issued, deletedUsers, workload>>

(* GET /auth/me (lines 241-244) *)
get_current_user_info(p) ==
    /\ Accepts(p, {"sessions"})
    /\ \E token \in PresentableTokens :
        LET r == Begin("get_current_user_info", token, NoId, NoBody)
            current_user == Authenticate(token) IN
        IF IsError(current_user) THEN Done(p, r, current_user)
        ELSE Done(p, [r EXCEPT !.uid = current_user.id],
                  [Response("OK", "") EXCEPT !.user = current_user.id])
    /\ UNCHANGED <<users, tasks, now, nextUserId, nextTaskId, issued, deletedUsers, workload>>

(* GET /user/profile (lines 249-252) *)
get_user_profile(p) ==
    /\ Accepts(p, {"sessions"})
    /\ \E token \in PresentableTokens :
        LET r == Begin("get_user_profile", token, NoId, NoBody)
            current_user == Authenticate(token) IN
        IF IsError(current_user) THEN Done(p, r, current_user)
        ELSE Done(p, [r EXCEPT !.uid = current_user.id],
                  [Response("OK", "") EXCEPT !.user = current_user.id])
    /\ UNCHANGED <<users, tasks, now, nextUserId, nextTaskId, issued, deletedUsers, workload>>

UserUpdateVals(k) ==
    CASE k = "username" -> Usernames \cup {"al"}
      [] k = "email" -> Emails
      [] k = "full_name" -> {"Full Name"}
      [] k = "password" -> {"secret2"}

UserUpdateBodies ==
    {NoBody, [username |-> "bob"], [username |-> "al"], [email |-> "b@x.com"],
     [password |-> "secret2"], [full_name |-> "Full Name", id |-> 2, created_at |-> 1],
     [username |-> "alice", email |-> "a@x.com"], [username |-> "bob", email |-> "a@x.com"]}

(* UserUpdate: the declared fields; what else the body carries is dropped (lines 101-105) *)
UserUpdate(b) ==
    [k \in DOMAIN b \cap {"username", "email", "full_name", "password"} |-> b[k]]

UserUpdateValid(b) ==
    /\ "username" \in DOMAIN b => (StrLen(b.username) >= 3 /\ StrLen(b.username) <= 50)
    /\ "password" \in DOMAIN b => StrLen(b.password) >= 6

(* PUT /user/profile, up to the empty-body check (lines 255-266) *)
update_user_profile(p) ==
    /\ Accepts(p, {"accounts"})
    /\ \E token \in PresentableTokens, b \in UserUpdateBodies :
        LET r == Begin("update_user_profile", token, NoId, b)
            current_user == Authenticate(token) IN
        IF IsError(current_user) THEN Done(p, r, current_user)
        ELSE LET r1 == [r EXCEPT !.uid = current_user.id] IN
             IF ~UserUpdateValid(b) THEN Done(p, r1, ValidationError)
             ELSE LET update_data == UserUpdate(b) IN
                  IF DOMAIN update_data = {}
                  THEN Done(p, r1, Response("BadRequest", "No fields to update"))
                  ELSE IF "username" \in DOMAIN update_data \/ "email" \in DOMAIN update_data
                  THEN Continue(p, [r1 EXCEPT !.pc = "check", !.body = update_data])
                  ELSE Continue(p, [r1 EXCEPT !.pc = "write", !.body = update_data])
    /\ UNCHANGED <<users, tasks, now, nextUserId, nextTaskId, issued, deletedUsers, workload>>

(* mutation: the profile is written before the uniqueness check answers *)
update_user_profile_check_after_write(p) ==
    /\ req[p].op = "update_user_profile" /\ req[p].pc = "check"
    /\ LET update_data == req[p].body
           found == {u \in users :
                        /\ \/ ("username" \in DOMAIN update_data /\ u.username = update_data.username)
                           \/ ("email" \in DOMAIN update_data /\ u.email = update_data.email)
                        /\ u.id # req[p].uid} IN
       /\ users' = {IF u.id = req[p].uid THEN SetFields(u, update_data) ELSE u : u \in users}
       /\ IF found = {} THEN Continue(p, [req[p] EXCEPT !.pc = "reread", !.body = NoBody, !.wrote = TRUE])
          ELSE Done(p, [req[p] EXCEPT !.wrote = TRUE],
                    Response("BadRequest", "Email already in use"))
    /\ UNCHANGED <<tasks, now, nextUserId, nextTaskId, issued, deletedUsers, workload>>

(* PUT /user/profile, the uniqueness check against the other users (lines 267-286) *)
update_user_profile_check(p) ==
    /\ req[p].op = "update_user_profile" /\ req[p].pc = "check"
    /\ LET update_data == req[p].body
           query_conditions ==
                {[username |-> update_data.username] : x \in {"username"} \cap DOMAIN update_data}
                \cup {[email |-> update_data.email] : x \in {"email"} \cap DOMAIN update_data}
           found == find_one(users, Query(NoConditions, query_conditions, [id |-> req[p].uid])) IN
       IF found = {} THEN Continue(p, [req[p] EXCEPT !.pc = "write"])
       ELSE \E existing_user \in found :
            IF "email" \in DOMAIN update_data /\ existing_user.email = update_data.email
            THEN Done(p, req[p], Response("BadRequest", "Email already in use"))
            ELSE IF "username" \in DOMAIN update_data /\ existing_user.username = update_data.username
            THEN Done(p, req[p], Response("BadRequest", "Username already taken"))
            ELSE Continue(p, [req[p] EXCEPT !.pc = "write"])
    /\ UNCHANGED <<users, tasks, now, nextUserId, nextTaskId, issued, deletedUsers, workload>>

(* PUT /user/profile, the write (lines 288-296) *)
update_user_profile_write(p) ==
    /\ req[p].op = "update_user_profile" /\ req[p].pc = "write"
    /\ LET b == req[p].body
           update_data == [k \in DOMAIN b |->
                              IF k = "password" THEN get_password_hash(b[k]) ELSE b[k]]
           matched == \E u \in users : u.id = req[p].uid IN
       /\ users' = update_one(users, ById(req[p].uid), update_data)
       /\ Continue(p, [req[p] EXCEPT !.pc = "reread", !.body = NoBody,
                                      !.wrote = (req[p].wrote \/ matched)])
    /\ UNCHANGED <<tasks, now, nextUserId, nextTaskId, issued, deletedUsers, workload>>

(* PUT /user/profile, the re-read and the response (lines 298-302) *)
update_user_profile_reread(p) ==
    /\ req[p].op = "update_user_profile" /\ req[p].pc = "reread"
    /\ LET found == find_one(users, ById(req[p].uid)) IN
       IF found = {} THEN Done(p, req[p], InternalError)
       ELSE \E updated_user \in found :
            Done(p, req[p], [Response("OK", "") EXCEPT !.user = updated_user.id])
    /\ UNCHANGED <<users, tasks, now, nextUserId, nextTaskId, issued, deletedUsers, workload>>

(* DELETE /user/profile, authentication (line 306) *)
delete_user_profile(p) ==
    /\ Accepts(p, Workloads)
    /\ \E token \in PresentableTokens :
        LET r == Begin("delete_user_profile", token, NoId, NoBody)
            current_user == Authenticate(token) IN
        IF IsError(current_user) THEN Done(p, r, current_user)
        ELSE Continue(p, [r EXCEPT !.uid = current_user.id, !.pc = "delete_tasks"])
    /\ UNCHANGED <<users, tasks, now, nextUserId, nextTaskId, issued, deletedUsers, workload>>

(* DELETE /user/profile, delete_many on the tasks (line 308) *)
delete_user_profile_tasks(p) ==
    /\ req[p].op = "delete_user_profile" /\ req[p].pc = "delete_tasks"
    /\ tasks' = {t \in tasks : t.user_id # req[p].uid}
    /\ Continue(p, [req[p] EXCEPT !.pc = "delete_user",
                                   !.wrote = (req[p].wrote \/ tasks' # tasks)])
    /\ UNCHANGED <<users, now, nextUserId, nextTaskId, issued, deletedUsers, workload>>

(* DELETE /user/profile, delete_one on the user (lines 311-313) *)
delete_user_profile_user(p) ==
    /\ req[p].op = "delete_user_profile" /\ req[p].pc = "delete_user"
    /\ users' = {u \in users : u.id # req[p].uid}
    /\ deletedUsers' = deletedUsers \cup {req[p].uid}
    /\ Done(p, [req[p] EXCEPT !.wrote = (req[p].wrote \/ users' # users)],
            Response("OK", "User profile and all associated tasks deleted successfully"))
    /\ UNCHANGED <<tasks, now, nextUserId, nextTaskId, issued, workload>>

(* -------------------------------- task routes ------------------------- *)
(* a query that drops the owner: the mutation used to test task isolation *)
task_query_by_id_only(task_id, user_id) == ById(task_id)

(* the query {"id": task_id, "user_id": current_user["id"]} *)
owned_task_query(task_id, user_id) ==
    Query([id |-> task_id, user_id |-> user_id], {}, NoConditions)

isoformat(d) == CASE d = "T1" -> "2030-01-01T00:00:00+00:00"
                  [] d = "T2" -> "2030-02-02T00:00:00+00:00"

fromisoformat(x) == CASE x = "2030-01-01T00:00:00+00:00" -> "T1"
                      [] x = "2030-02-02T00:00:00+00:00" -> "T2"

(* the ids a client asks for: those handed out so far, and the next one *)
TaskIds == {i \in 1..MaxTasks : i <= nextTaskId}

TaskCreateBodies ==
    {[title |-> "t1", id |-> 2, user_id |-> 2, created_at |-> 1],
     [title |-> "t1", status |-> "completed", due_date |-> "T1"],
     [title |-> "t1", status |-> "bogus"], [title |-> "t1", status |-> None], [title |-> ""],
     [status |-> "pending"]}

(* TaskCreate: the field constraints and validate_status (lines 125-137) *)
TaskCreateValid(b) ==
    /\ "title" \in DOMAIN b /\ StrLen(b.title) >= 1 /\ StrLen(b.title) <= 200
    /\ "status" \in DOMAIN b => (b.status # None /\ b.status \in allowed_statuses)

(* TaskCreate.model_dump(): unset fields take their defaults *)
TaskCreateDump(b) ==
    [title |-> b.title,
     description |-> IF "description" \in DOMAIN b THEN b.description ELSE None,
     status |-> IF "status" \in DOMAIN b THEN b.status ELSE "pending",
     due_date |-> IF "due_date" \in DOMAIN b THEN b.due_date ELSE None]

(* POST /tasks, up to the insert (lines 318-327) *)
create_task(p) ==
    /\ Accepts(p, {"tasks"})
    /\ nextTaskId + InFlight("create_task") <= MaxTasks
    /\ \E token \in PresentableTokens, b \in TaskCreateBodies :
        LET r == Begin("create_task", token, NoId, b)
            current_user == Authenticate(token) IN
        IF IsError(current_user) THEN Done(p, r, current_user)
        ELSE LET r1 == [r EXCEPT !.uid = current_user.id] IN
             IF ~TaskCreateValid(b) THEN Done(p, r1, ValidationError)
             ELSE LET d == TaskCreateDump(b)
                      task_dict == [d EXCEPT !.due_date = IF d.due_date # None
                                                          THEN isoformat(d.due_date) ELSE None]
                  IN Continue(p, [r1 EXCEPT !.pc = "insert",
                        !.body = [title |-> task_dict.title, description |-> task_dict.description,
                                  status |-> task_dict.status, due_date |-> task_dict.due_date,
                                  user_id |-> current_user.id, created_at |-> now]])
    /\ UNCHANGED <<users, tasks, now, nextUserId, nextTaskId, issued, deletedUsers, workload>>

(* POST /tasks, the insert and the response (lines 329-336) *)
create_task_insert(p) ==
    /\ req[p].op = "create_task" /\ req[p].pc = "insert"
    /\ LET b == req[p].body
           task_dict == [id |-> nextTaskId, title |-> b.title, description |-> b.description,
                         status |-> b.status, due_date |-> b.due_date,
                         created_at |-> b.created_at, user_id |-> b.user_id]
       IN /\ tasks' = tasks \cup {task_dict}
          /\ nextTaskId' = nextTaskId + 1
          /\ Done(p, [req[p] EXCEPT !.wrote = TRUE, !.tid = task_dict.id],
                  [Response("Created", "") EXCEPT !.ids = {task_dict.id}])
    /\ UNCHANGED <<users, now, nextUserId, issued, deletedUsers, workload>>

StatusFilters == {None, "", "completed", "bogus"}

(* GET /tasks, up to the query (lines 339-354) *)
get_tasks(p) ==
    /\ Accepts(p, {"tasks"})
    /\ \E token \in PresentableTokens, status_filter \in StatusFilters :
        LET r == Begin("get_tasks", token, NoId, [status_filter |-> status_filter])
            current_user == Authenticate(token) IN
        IF IsError(current_user) THEN Done(p, r, current_user)
        ELSE LET r1 == [r EXCEPT !.uid = current_user.id] IN
             IF status_filter # None /\ status_filter # "" /\ status_filter \notin allowed_statuses
             THEN Done(p, r1, Response("BadRequest", "Invalid status"))
             ELSE Continue(p, [r1 EXCEPT !.pc = "find"])
    /\ UNCHANGED <<users, tasks, now, nextUserId, nextTaskId, issued, deletedUsers, workload>>

(* to_list(length): at most length documents of the cursor *)
to_list(docs, length) ==
    IF Cardinality(docs) <= length THEN {docs}
    ELSE {S \in SUBSET docs : Cardinality(S) = length}

(* GET /tasks, the query and the response (lines 356-364) *)
get_tasks_find(p) ==
    /\ req[p].op = "get_tasks" /\ req[p].pc = "find"
    /\ LET status_filter == req[p].body.status_filter
           matching == {t \in tasks : /\ t.user_id = req[p].uid
                                       /\ ((status_filter # None /\ status_filter # "")
                                            => t.status = status_filter)} IN
       \E listed \in to_list(matching, ListLength) :
            Done(p, req[p], [Response("OK", "") EXCEPT !.ids = {t.id : t \in listed}])
    /\ UNCHANGED <<users, tasks, now, nextUserId, nextTaskId, issued, deletedUsers, workload>>

(* GET /tasks/{task_id}, authentication (line 368) *)
get_task(p) ==
    /\ Accepts(p, {"tasks"})
    /\ \E token \in PresentableTokens, task_id \in TaskIds :
        LET r == Begin("get_task", token, task_id, NoBody)
            current_user == Authenticate(token) IN
        IF IsError(current_user) THEN Done(p, r, current_user)
        ELSE Continue(p, [r EXCEPT !.uid = current_user.id, !.pc = "find"])
    /\ UNCHANGED <<users, tasks, now, nextUserId, nextTaskId, issued, deletedUsers, workload>>

(* GET /tasks/{task_id}, the lookup and the response (lines 369-385) *)
get_task_find(p) ==
    /\ req[p].op = "get_task" /\ req[p].pc = "find"
    /\ LET found == find_one(tasks, owned_task_query(req[p].tid, req[p].uid)) IN
       IF found = {} THEN Done(p, req[p], Response("NotFound", "Task not found"))
       ELSE \E task \in found :
            Done(p, req[p], [Response("OK", "") EXCEPT !.ids = {task.id}])
    /\ UNCHANGED <<users, tasks, now, nextUserId, nextTaskId, issued, deletedUsers, workload>>

TaskUpdateBodies ==
    {NoBody, [status |-> "in-progress", id |-> 2, user_id |-> 2, created_at |-> 1],
     [status |-> None], [status |-> "bogus"],
     [title |-> ""], [description |-> "d1", due_date |-> "T2"]}

(* mutation: the fields a client adds to the declared ones are kept *)
TaskUpdateAllowExtra(b) == b

(* TaskUpdate: the declared fields; what else the body carries is dropped (lines 140-144) *)
TaskUpdate(b) ==
    [k \in DOMAIN b \cap {"title", "description", "status", "due_date"} |-> b[k]]

(* TaskUpdate: the field constraints and validate_status (lines 140-153) *)
TaskUpdateValid(b) ==
    /\ ("title" \in DOMAIN b /\ b.title # None) => (StrLen(b.title) >= 1 /\ StrLen(b.title) <= 200)
    /\ ("status" \in DOMAIN b /\ b.status # None) => b.status \in allowed_statuses

(* PUT /tasks/{task_id}, authentication and body validation (lines 389-393) *)
update_task(p) ==
    /\ Accepts(p, {"tasks"})
    /\ \E token \in PresentableTokens, task_id \in TaskIds, b \in TaskUpdateBodies :
        LET r == Begin("update_task", token, task_id, b)
            current_user == Authenticate(token) IN
        IF IsError(current_user) THEN Done(p, r, current_user)
        ELSE LET r1 == [r EXCEPT !.uid = current_user.id] IN
             IF ~TaskUpdateValid(b) THEN Done(p, r1, ValidationError)
             ELSE Continue(p, [r1 EXCEPT !.pc = "check", !.body = TaskUpdate(b)])
    /\ UNCHANGED <<users, tasks, now, nextUserId, nextTaskId, issued, deletedUsers, workload>>

(* PUT /tasks/{task_id}, the ownership check and the empty-body check (lines 394-415) *)
update_task_check(p) ==
    /\ req[p].op = "update_task" /\ req[p].pc = "check"
    /\ LET found == find_one(tasks, owned_task_query(req[p].tid, req[p].uid))
           update_data == req[p].body IN
       IF found = {} THEN Done(p, req[p], Response("NotFound", "Task not found"))
       ELSE IF DOMAIN update_data = {} THEN Done(p, req[p], Response("BadRequest", "No fields to update"))
       ELSE Continue(p, [req[p] EXCEPT !.pc = "write",
                !.body = [k \in DOMAIN update_data |->
                            IF k = "due_date" /\ update_data[k] # None
                            THEN isoformat(update_data[k]) ELSE update_data[k]]])
    /\ UNCHANGED <<users, tasks, now, nextUserId, nextTaskId, issued, deletedUsers, workload>>

(* PUT /tasks/{task_id}, the write (lines 417-421) *)
update_task_write(p) ==
    /\ req[p].op = "update_task" /\ req[p].pc = "write"
    /\ LET matched == \E t \in tasks : t.id = req[p].tid IN
       /\ tasks' = update_one(tasks, ById(req[p].tid), req[p].body)
       /\ Continue(p, [req[p] EXCEPT !.pc = "reread", !.body = NoBody,
                                      !.wrote = (req[p].wrote \/ matched)])
    /\ UNCHANGED <<users, now, nextUserId, nextTaskId, issued, deletedUsers, workload>>

(* TaskResponse: title and status must be strings (lines 156-165) *)
TaskResponseValid(task) == task.title # None /\ task.status # None

(* PUT /tasks/{task_id}, the re-read and the response (lines 423-431) *)
update_task_reread(p) ==
    /\ req[p].op = "update_task" /\ req[p].pc = "reread"
    /\ LET found == find_one(tasks, ById(req[p].tid)) IN
       IF found = {} THEN Done(p, req[p], InternalError)
       ELSE \E updated_task \in found :
            IF ~TaskResponseValid(updated_task) THEN Done(p, req[p], InternalError)
            ELSE Done(p, req[p], [Response("OK", "") EXCEPT !.ids = {updated_task.id}])
    /\ UNCHANGED <<users, tasks, now, nextUserId, nextTaskId, issued, deletedUsers, workload>>

(* DELETE /tasks/{task_id}, authentication (line 435) *)
delete_task(p) ==
    /\ Accepts(p, {"tasks"})
    /\ \E token \in PresentableTokens, task_id \in TaskIds :
        LET r == Begin("delete_task", token, task_id, NoBody)
            current_user == Authenticate(token) IN
        IF IsError(current_user) THEN Done(p, r, current_user)
        ELSE Continue(p, [r EXCEPT !.uid = current_user.id, !.pc = "delete"])
    /\ UNCHANGED <<users, tasks, now, nextUserId, nextTaskId, issued, deletedUsers, workload>>

(* DELETE /tasks/{task_id}, delete_one and the response (lines 436-446) *)
delete_task_delete(p) ==
    /\ req[p].op = "delete_task" /\ req[p].pc = "delete"
    /\ LET found == find_one(tasks, owned_task_query(req[p].tid, req[p].uid)) IN
       IF found = {}
       THEN /\ UNCHANGED tasks
            /\ Done(p, req[p], Response("NotFound", "Task not found"))
       ELSE \E task \in found :
            /\ tasks' = tasks \ {task}
            /\ Done(p, [req[p] EXCEPT !.wrote = TRUE], Response("OK", "Task deleted successfully"))
    /\ UNCHANGED <<users, now, nextUserId, nextTaskId, issued, deletedUsers, workload>>

(* the clock *)
Tick ==
    /\ workload = "sessions"
    /\ now < MaxTicks * TickMinutes
    /\ now' = now + TickMinutes
    /\ UNCHANGED <<started, users, tasks, nextUserId, nextTaskId, issued, deletedUsers, req, last, workload>>

Next ==
    \/ \E p \in Procs : signup(p)
    \/ \E p \in Procs : signup_insert(p)
    \/ \E p \in Procs : login(p)
    \/ \E p \in Procs : logout(p)
    \/ \E p \in Procs : get_current_user_info(p)
    \/ \E p \in Procs : get_user_profile(p)
    \/ \E p \in Procs : update_user_profile(p)
    \/ \E p \in Procs : update_user_profile_check(p)
    \/ \E p \in Procs : update_user_profile_write(p)
    \/ \E p \in Procs : update_user_profile_reread(p)
    \/ \E p \in Procs : delete_user_profile(p)
    \/ \E p \in Procs : delete_user_profile_tasks(p)
    \/ \E p \in Procs : delete_user_profile_user(p)
    \/ \E p \in Procs : create_task(p)
    \/ \E p \in Procs : create_task_insert(p)
    \/ \E p \in Procs : get_tasks(p)
    \/ \E p \in Procs : get_tasks_find(p)
    \/ \E p \in Procs : get_task(p)
    \/ \E p \in Procs : get_task_find(p)
    \/ \E p \in Procs : update_task(p)
    \/ \E p \in Procs : update_task_check(p)
    \/ \E p \in Procs : update_task_write(p)
    \/ \E p \in Procs : update_task_reread(p)
    \/ \E p \in Procs : delete_task(p)
    \/ \E p \in Procs : delete_task_delete(p)
    \/ Tick

Spec == Init /\ [][Next]_vars

(* ------------------------------ step vocabulary ----------------------- *)
(* a request arrives in this step *)
Arrives == started' # started

(* the request that arrives in this step: still being served, or already answered *)
Arrived ==
    IF \E p \in Procs : req[p].pc = "idle" /\ req'[p].pc # "idle"
    THEN LET p == CHOOSE q \in Procs : req[q].pc = "idle" /\ req'[q].pc # "idle" IN
         [op |-> req'[p].op, token |-> req'[p].token, body |-> req'[p].body, answered |-> FALSE]
    ELSE [op |-> last'.op, token |-> last'.token, body |-> last'.body, answered |-> TRUE]

(* worker p takes a step of a request it was already serving *)
Resumes(p) == req[p].pc # "idle" /\ req'[p] # req[p]

(* worker p answers, in this step, the request it was serving *)
Answers(p) == req[p].pc # "idle" /\ req'[p].pc = "idle"

(* the user on whose behalf this step runs (NoId: nobody) *)
Caller ==
    IF \E p \in Procs : Resumes(p)
    THEN req[CHOOSE p \in Procs : Resumes(p)].uid
    ELSE IF \E p \in Procs : req'[p] # req[p]
    THEN req'[CHOOSE p \in Procs : req'[p] # req[p]].uid
    ELSE IF Arrives THEN last'.uid ELSE NoId

NotFoundResponse == Response("NotFound", "Task not found")

(* ------------------------------- C1 ----------------------------------- *)
(* C1: task isolation. No step taken on behalf of user B changes or removes
   a task of another user; Get, List and Update never return another user's
   task to B; and B's Get, Update and Delete of a task id B does not own are
   answered 404 "Task not found" without a write, whether the id belongs to
   another user or to nobody. *)
TaskIsolationStep ==
    /\ \A t \in tasks : t.user_id # Caller => t \in tasks'
    /\ \A p \in Procs :
        Answers(p) /\ req[p].op \in {"get_task", "get_tasks", "update_task"} =>
            \A t \in tasks : t.id \in last'.res.ids => t.user_id = req[p].uid
    /\ \A p \in Procs :
        (/\ Resumes(p)
         /\ \/ req[p].op = "get_task" /\ req[p].pc = "find"
            \/ req[p].op = "update_task" /\ req[p].pc = "check"
            \/ req[p].op = "delete_task" /\ req[p].pc = "delete"
         /\ ~\E t \in tasks : t.id = req[p].tid /\ t.user_id = req[p].uid)
        => /\ Answers(p)
           /\ last'.res = NotFoundResponse
           /\ ~last'.wrote
           /\ tasks' = tasks

TaskIsolation == [][TaskIsolationStep]_vars

(* B was answered NotFound for a task that exists and belongs to A *)
TaskIsolationWitness ==
    /\ last.op \in {"get_task", "update_task", "delete_task"}
    /\ last.res = NotFoundResponse
    /\ last.uid # NoId
    /\ \E t \in tasks : t.id = last.tid /\ t.user_id # last.uid

(* ------------------------------- C2 ----------------------------------- *)
(* C2: in every reachable state no two stored users have the same username
   and no two stored users have the same email. *)
UniqueUsernameAndEmail ==
    \A u, v \in users : u # v => (u.username # v.username /\ u.email # v.email)

(* ------------------------------- C3 ----------------------------------- *)
(* C3: once DeleteProfile of user u has completed, no stored task has
   user_id = u (a task never outlives its owning user). *)
NoTaskOutlivesItsUser ==
    \A t \in tasks : t.user_id \notin deletedUsers

(* ------------------------------- C4 ----------------------------------- *)
(* C4: every stored task's status is one of pending, in-progress, completed. *)
StoredStatusIsAllowed ==
    \A t \in tasks : t.status \in allowed_statuses

(* ------------------------------- C5 ----------------------------------- *)
ProtectedOps ==
    {"logout", "get_current_user_info", "get_user_profile", "update_user_profile",
     "delete_user_profile", "create_task", "get_tasks", "get_task", "update_task",
     "delete_task"}

(* the token cannot be resolved to a stored user at this instant *)
Unresolvable(tk) ==
    \/ tk.fmt # "jwt"
    \/ tk.key # SECRET_KEY
    \/ tk.payload.exp <= now
    \/ tk.payload.sub = NoId
    \/ ~\E u \in users : u.id = tk.payload.sub

(* C5: a request to a protected route whose token is absent, malformed,
   badly signed, expired, without subject, or names a user that is not
   stored, is answered Unauthorized at once and writes nothing; every such
   token that was presented gets the same 401 body; and a user whose
   DeleteProfile completed is never stored again, so the tokens issued to
   that user stay unresolvable. *)
AuthGateStep ==
    /\ (Arrives /\ Arrived.op \in ProtectedOps /\ Unresolvable(Arrived.token))
        => /\ Arrived.answered
           /\ last'.res.status = "Unauthorized"
           /\ ~last'.wrote
           /\ users' = users /\ tasks' = tasks
           /\ Arrived.token.fmt # "absent" => last'.res = credentials_exception
    /\ \A u \in users' : u.id \notin deletedUsers'

AuthGate == [][AuthGateStep]_vars

(* a token issued to a user, presented after the user's DeleteProfile, got 401 *)
AuthGateWitness ==
    /\ last.op \in ProtectedOps
    /\ last.res = credentials_exception
    /\ last.token \in issued
    /\ last.token.payload.sub \in deletedUsers

(* ------------------------------- C6 ----------------------------------- *)
(* C6: the token returned by a successful Signup or Login, presented while it
   has not expired and the user is stored, passes the bearer check and
   resolves to the user whose id the same response carries. *)
ReturnedTokenResolvesToItsUser ==
    (last.op \in {"signup", "login"} /\ last.res.status \in {"Created", "OK"}) =>
        LET tk == last.res.token IN
        (now < last.res.issued_at + ACCESS_TOKEN_EXPIRE_MINUTES
            /\ \E u \in users : u.id = last.res.user)
        => /\ HTTPBearer(tk)
           /\ ~IsError(get_current_user(tk, users, now))
           /\ get_current_user(tk, users, now).id = last.res.user

(* a Login's token resolves to its user while another user is stored too *)
ReturnedTokenWitness ==
    /\ last.op = "login" /\ last.res.status = "OK"
    /\ Cardinality(users) = 2
    /\ ~IsError(get_current_user(last.res.token, users, now))
    /\ get_current_user(last.res.token, users, now).id = last.res.user

(* ------------------------------- C7 ----------------------------------- *)
(* C7: a valid Signup is rejected with BadRequest exactly when a stored user
   has its email or its username, and the rejection is the email error
   whenever some stored user has the requested email; the username error is
   given only when no stored user has that email. *)
SignupEmailFirstStep ==
    (Arrives /\ Arrived.op = "signup" /\ UserCreateValid(Arrived.body)) =>
        LET b == Arrived.body
            emailTaken == \E u \in users : u.email = b.email
            nameTaken == \E u \in users : u.username = b.username
            rejected == Arrived.answered /\ last'.res.status = "BadRequest"
        IN /\ rejected <=> (emailTaken \/ nameTaken)
           /\ emailTaken => last'.res = Response("BadRequest", "Email already registered")
           /\ (rejected /\ ~emailTaken) => last'.res = Response("BadRequest", "Username already taken")

SignupEmailFirst == [][SignupEmailFirstStep]_vars

(* ------------------------------- C8 ----------------------------------- *)
LoginFailure == Response("Unauthorized", "Incorrect email or password")

(* C8: a Login for an email no stored user has, and a Login for a stored
   email whose password matches no stored user with that email, are both
   answered with the one and the same Unauthorized response, and no Login
   changes the stores. *)
LoginStep ==
    (Arrives /\ Arrived.op = "login") =>
        LET b == Arrived.body
            registered == \E u \in users : u.email = b.email
            matching == \E u \in users :
                            u.email = b.email /\ u.password = get_password_hash(b.password)
        IN /\ Arrived.answered
           /\ users' = users /\ tasks' = tasks /\ ~last'.wrote
           /\ ~registered => last'.res = LoginFailure
           /\ (registered /\ ~matching) => last'.res = LoginFailure
           /\ last'.res.status # "OK" => last'.res = LoginFailure

LoginFailuresIndistinguishable == [][LoginStep]_vars

(* a Login with a registered email and a wrong password was refused *)
LoginWrongPasswordWitness ==
    /\ workload = "sessions"
    /\ last.op = "login" /\ last.res = LoginFailure
    /\ \E u \in users : u.email = last.body.email
                          /\ u.password # get_password_hash(last.body.password)

(* ------------------------------- C9 ----------------------------------- *)
(* C9: the write of an Update changes, in the one task with the request's id,
   the supplied fields to the supplied values and nothing else: every
   unsupplied field of that task, every other task and every user stay as
   they were, and no task appears or disappears; no other step of an Update
   changes the stores; an Update of an owned task with an empty body is
   answered BadRequest. *)
UpdateFrameStep ==
    \A p \in Procs :
        (Resumes(p) /\ req[p].op = "update_task") =>
            /\ users' = users
            /\ req[p].pc # "write" => tasks' = tasks
            /\ req[p].pc = "write" =>
                LET d == req[p].body IN
                /\ {t.id : t \in tasks'} = {t.id : t \in tasks}
                /\ Cardinality(tasks') = Cardinality(tasks)
                /\ \A t \in tasks : t.id # req[p].tid => t \in tasks'
                /\ \A t \in tasks : t.id = req[p].tid =>
                      \E t2 \in tasks' :
                          /\ t2.id = t.id
                          /\ \A k \in DOMAIN t :
                                t2[k] = IF k \in DOMAIN d THEN d[k] ELSE t[k]
            /\ (/\ req[p].pc = "check"
                /\ DOMAIN req[p].body = {}
                /\ \E t \in tasks : t.id = req[p].tid /\ t.user_id = req[p].uid)
               => /\ Answers(p)
                  /\ last'.res = Response("BadRequest", "No fields to update")

UpdateFrame == [][UpdateFrameStep]_vars

(* an Update succeeded on one of two stored tasks, leaving a field as created *)
UpdateFrameWitness ==
    /\ last.op = "update_task" /\ last.res.status = "OK"
    /\ Cardinality(tasks) = 2
    /\ \E t \in tasks : t.id = last.tid /\ t.status # "pending" /\ t.title = "t1"

(* ------------------------------- C10 ---------------------------------- *)
Rejections == {"BadRequest", "Unauthorized", "NotFound"}

(* a response is sent in this step *)
Responds == (Arrives /\ Arrived.answered) \/ \E p \in Procs : Answers(p)

(* C10: a request answered BadRequest, Unauthorized or NotFound has written
   nothing: the step that answers changes no store, and no earlier step of
   the request changed one (every step that changes a store marks its
   request, and the mark stays). *)
RejectionsWriteNothingStep ==
    /\ (users' # users \/ tasks' # tasks) =>
          \E p \in Procs :
              Resumes(p) /\ (IF Answers(p) THEN last'.wrote ELSE req'[p].wrote)
    /\ \A p \in Procs :
          (Resumes(p) /\ req[p].wrote) => (IF Answers(p) THEN last'.wrote ELSE req'[p].wrote)
    /\ (Responds /\ last'.res.status \in Rejections) =>
          /\ ~last'.wrote
          /\ users' = users /\ tasks' = tasks

RejectionsWriteNothing == [][RejectionsWriteNothingStep]_vars

(* an UpdateProfile was rejected for a conflict after its uniqueness check *)
RejectionWitness ==
    /\ last.op = "update_user_profile"
    /\ last.res = Response("BadRequest", "Email already in use")
    /\ ~last.wrote

(* ------------------------------- C11 ---------------------------------- *)
(* C11: a List is served past its filter check only when no status_filter was
   supplied or the supplied one is one of the three allowed values (every other
   supplied filter, the empty string included, is answered BadRequest); and
   the answer of a List holds exactly the caller's stored tasks when no filter
   was supplied, and exactly the caller's stored tasks with the filter's
   status when a valid one was. *)
ListStep ==
    /\ (Arrives /\ Arrived.op = "get_tasks" /\ ~Arrived.answered) =>
          Arrived.body.status_filter \in {None} \cup allowed_statuses
    /\ \A p \in Procs :
          (Resumes(p) /\ req[p].op = "get_tasks") =>
              LET f == req[p].body.status_filter
                  owned == {t \in tasks : t.user_id = req[p].uid} IN
              /\ Answers(p)
              /\ IF f = None
                 THEN last'.res.status = "OK" /\ last'.res.ids = {t.id : t \in owned}
                 ELSE IF f \in allowed_statuses
                 THEN /\ last'.res.status = "OK"
                      /\ last'.res.ids = {t.id : t \in {o \in owned : o.status = f}}
                 ELSE last'.res.status = "BadRequest"

ListReturnsOwnedOrRejects == [][ListStep]_vars

(* ------------------------------- C12 ---------------------------------- *)
(* C12: an UpdateProfile with an empty partial set is not served past its
   first step; its uniqueness check looks at the users other than the caller
   only: it answers the email error when another user holds the supplied
   email, the username error when another user holds the supplied username
   and none holds the supplied email, and lets the request go on to its write
   otherwise (so the caller's own current username or email is accepted); and
   the write changes, in the caller's record, the supplied fields only, and no
   other user. *)
UpdateProfileStep ==
    /\ (Arrives /\ Arrived.op = "update_user_profile" /\ ~Arrived.answered) =>
          DOMAIN Arrived.body # {}
    /\ \A p \in Procs :
          (Resumes(p) /\ req[p].op = "update_user_profile" /\ req[p].pc = "check") =>
              LET d == req[p].body
                  others == {u \in users : u.id # req[p].uid}
                  emailHeld == "email" \in DOMAIN d /\ \E u \in others : u.email = d.email
                  nameHeld == "username" \in DOMAIN d /\ \E u \in others : u.username = d.username
              IN /\ users' = users
                 /\ emailHeld =>
                        Answers(p) /\ last'.res = Response("BadRequest", "Email already in use")
                 /\ (nameHeld /\ ~emailHeld) =>
                        Answers(p) /\ last'.res = Response("BadRequest", "Username already taken")
                 /\ (~nameHeld /\ ~emailHeld) => req'[p].pc = "write"
    /\ \A p \in Procs :
          (Resumes(p) /\ req[p].op = "update_user_profile" /\ req[p].pc = "write") =>
              LET d == req[p].body IN
              /\ \A u \in users : u.id # req[p].uid => u \in users'
              /\ Cardinality(users') = Cardinality(users)
              /\ \A u \in users : u.id = req[p].uid =>
                    \E u2 \in users' :
                        /\ u2.id = u.id
                        /\ \A k \in DOMAIN u :
                              u2[k] = IF k \notin DOMAIN d THEN u[k]
                                      ELSE IF k = "password" THEN get_password_hash(d[k])
                                      ELSE d[k]

UpdateProfileChecksOthers == [][UpdateProfileStep]_vars

(* ------------------------------- C13 ---------------------------------- *)
TaskIdsStored(ts) == {t.id : t \in ts}
UserIdsStored(us) == {u.id : u \in us}

(* C13: in every step a stored task keeps its id, user_id and created_at and
   a stored user keeps its id and created_at: a record that stays stored has
   the same values of these fields, no step of an Update or an UpdateProfile
   makes an id appear or disappear (whatever id, user_id or created_at the
   request's body carries), and a task that appears is inserted by a Create,
   under a fresh id, with user_id the id resolved from that request's token. *)
ImmutableFieldsStep ==
    /\ \A t \in tasks, t2 \in tasks' :
          t2.id = t.id => (t2.user_id = t.user_id /\ t2.created_at = t.created_at)
    /\ \A u \in users, u2 \in users' :
          u2.id = u.id => u2.created_at = u.created_at
    /\ \A p \in Procs :
          (Resumes(p) /\ req[p].op \in {"update_task", "update_user_profile"}) =>
              /\ TaskIdsStored(tasks') = TaskIdsStored(tasks)
              /\ UserIdsStored(users') = UserIdsStored(users)
              /\ Cardinality(tasks') = Cardinality(tasks)
              /\ Cardinality(users') = Cardinality(users)
    /\ \A t2 \in tasks' :
          t2.id \notin TaskIdsStored(tasks) =>
              \E p \in Procs :
                  /\ Resumes(p) /\ req[p].op = "create_task"
                  /\ t2.id = nextTaskId /\ nextTaskId' > nextTaskId
                  /\ t2.user_id = req[p].uid
                  /\ t2.user_id = req[p].token.payload.sub
                  /\ tasks' = tasks \cup {t2}

ImmutableFields == [][ImmutableFieldsStep]_vars

(* an Update whose body carried another id, user_id and created_at succeeded
   on a task created from a body that carried them too; the task has its own *)
ImmutableFieldsWitness ==
    /\ last.op = "update_task" /\ last.res.status = "OK"
    /\ last.uid = 1 /\ last.tid = 1
    /\ \E u \in users : u.id = 2
    /\ \E t \in tasks :
          /\ t.id = 1 /\ t.user_id = 1 /\ t.created_at = 0
          /\ t.status = "in-progress"

(* ------------------------------- C14 ---------------------------------- *)
(* C14: no step of an Update or of an UpdateProfile makes a task or a user
   appear (a record removed by a Delete or a DeleteProfile is not recreated);
   an Update that passed its ownership check and answers when its task is no
   longer stored answers NotFound; and an UpdateProfile that answers when its
   user is no longer stored does not answer with an internal error. *)
UpdateAfterDeleteStep ==
    \A p \in Procs :
        /\ (Resumes(p) /\ req[p].op \in {"update_task", "update_user_profile"}) =>
              /\ TaskIdsStored(tasks') \subseteq TaskIdsStored(tasks)
              /\ UserIdsStored(users') \subseteq UserIdsStored(users)
        /\ (/\ Answers(p) /\ req[p].op = "update_task"
            /\ req[p].pc \in {"write", "reread"}
            /\ req[p].tid \notin TaskIdsStored(tasks))
           => last'.res = NotFoundResponse
        /\ (/\ Answers(p) /\ req[p].op = "update_user_profile"
            /\ req[p].uid \notin UserIdsStored(users))
           => last'.res.status # "InternalError"

UpdateSurvivesDelete == [][UpdateAfterDeleteStep]_vars

====
